---------------------------- MODULE Spec2Model ----------------------------
(***************************************************************************)
(* A model of the GPU health monitor of gputop (src/src/health.rs): the    *)
(* rolling sample window, the metric analyzers, the alert rules, the       *)
(* scoring function and the bounded alert history of HealthMonitor.        *)
(* The loop of run_app (src/src/main.rs) and App::update (src/src/app.rs)  *)
(* drive it.                                                               *)
(*                                                                         *)
(* Units.  f32 quantities are modelled by integers:                        *)
(*   temperature, power draw, utilization : whole degrees / watts / percent*)
(*   memory_used, memory_total            : whole MiB (the code divides    *)
(*       byte differences by 1024*1024; on whole-MiB inputs below 2^24 MiB *)
(*       the f32 arithmetic of the code is exact)                          *)
(*   timestamps                           : whole seconds of local time    *)
(*   efficiency                           : hundredths, rounded down       *)
(*   leak_suspicion                       : hundredths (exact: trend/50)   *)
(*   fragmentation_score                  : hundredths, rounded up         *)
(*   avg_draw_1hr                         : watts, rounded down            *)
(*   uptime_hours                         : sixtieths of an hour           *)
(* so that every comparison the code makes against a threshold has the     *)
(* same outcome on the integer as on the f32 value.                        *)
(***************************************************************************)
EXTENDS Integers, Sequences, FiniteSets, TLC

(***************************************************************************)
(* Bounds of the model.                                                    *)
(***************************************************************************)
\* history_window keeps 3600 samples in the source (health.rs:121); the model
\* keeps the same code with the capacity scaled down.
WindowCapacity == 12
\* alert_history keeps 100 alerts in the source (health.rs:153), scaled down.
AlertCapacity == 3
\* update_metrics calls in one behaviour of Spec.
MaxCalls == 14
\* update_metrics calls in one behaviour of SpecStatus.
MaxStatusCalls == 2
\* update_metrics calls in one behaviour of SpecAlerts.
MaxAlertCalls == 3
\* largest limit passed to get_recent_alerts.
MaxLimit == 4
\* the wall-clock reading (seconds since local midnight of day 0) at start.
StartTime == 86390
\* SpecLeak: update_metrics calls, one per second, and the MiB by which
\* memory_used grows from one call to the next.
LeakTicks == 120
LeakStep == 15
\* SpecPower: update_metrics calls in one behaviour, and the watts by which
\* the power draw may rise from one call to the next.
MaxPowerCalls == 12
PowerJump == 25
\* SpecApp: update cycles that reach update_metrics in one behaviour.
MaxAppCycles == 3
\* SpecClock: update_metrics calls in one behaviour.
MaxClockCalls == 3
\* SpecMemory: update_metrics calls in one behaviour.
MaxMemoryCalls == 3
\* SpecLevel: the calls with free readings that open a behaviour, and all its
\* calls.
LevelFree == 3
MaxLevelCalls == 104

(***************************************************************************)
(* Program constants.                                                      *)
(***************************************************************************)
MaxSafe == 80
Critical == 90
TrendWindowMinutes == 5
UsageWindowMinutes == 1
MinutesPerDay == 1440
SecondsPerMinute == 60
SpikeWatts == 20
SpikePairs == 10
FragmentationMinLen == 10
FragmentationSamples == 60
LeakTrendMin == 10
TimeAbove80Limit == 1800
HistoryWindowLen == 3600
AlertHistoryLen == 100
DrawAlertLimit == 10

VARIABLES
    history_window,   \* HealthMonitor.history_window: Seq of HealthSnapshot
    alert_history,    \* HealthMonitor.alert_history: Seq of HealthAlert
    monitoring_start, \* HealthMonitor.monitoring_start
    health_metrics,   \* App.health_metrics: None or Some(report of the last update)
    recent_alerts,    \* the value returned by the last get_recent_alerts call
                      \* since the last update_metrics call: None or Some([limit, alerts])
    panicked,         \* TRUE once a call has panicked (the process is gone)
    appended,         \* history: every snapshot ever pushed, in push order
    generated,        \* history: every alert ever generated, in generation order
    score_input,      \* SpecScore, SpecRules: the arguments of the function called
    score_output,     \* SpecScore, SpecRules: None or Some(the value it returned)
    pc,               \* run_app: the position of the loop
    update_pc,        \* App::update: "idle", or the position of the call in progress
    gpus,             \* App.gpus.get(current_gpu): None or Some(the sample last fetched)
    frame,            \* what the last terminal.draw read: None or Some(record)
    processes,        \* App.processes: Seq of GpuProcess
    selected_process, \* App.selected_process: None or Some(index from 0)
    selected_pid      \* history: None or Some(the pid at selected_process when
                      \* it was last assigned)

select_vars == <<processes, selected_process, selected_pid>>

app_vars == <<pc, update_pc, gpus, frame, processes, selected_process, selected_pid>>

vars == <<history_window, alert_history, monitoring_start, health_metrics,
          recent_alerts, panicked, appended, generated, score_input, score_output,
          pc, update_pc, gpus, frame, processes, selected_process, selected_pid>>

(***************************************************************************)
(* Option<T>, and small helpers.                                           *)
(***************************************************************************)
None == <<>>
Some(v) == <<v>>
unwrap_or(o, d) == IF o = None THEN d ELSE o[1]

Min(a, b) == IF a <= b THEN a ELSE b
Max(a, b) == IF a >= b THEN a ELSE b

\* the sum of s[lo..hi], halving the range
RECURSIVE SumRange(_, _, _)
SumRange(s, lo, hi) ==
    IF lo > hi THEN 0
    ELSE IF lo = hi THEN s[lo]
    ELSE SumRange(s, lo, (lo + hi) \div 2) + SumRange(s, (lo + hi) \div 2 + 1, hi)

\* iter().sum()
SumSeq(s) == SumRange(s, 1, Len(s))

\* iter().rev()
Rev(s) == [i \in 1..Len(s) |-> s[Len(s) + 1 - i]]
\* iter().take(n)
Take(s, n) == SubSeq(s, 1, Min(n, Len(s)))
\* iter().skip(n)
Skip(s, n) == SubSeq(s, Min(n, Len(s)) + 1, Len(s))
\* iter().filter(..).count() over the indices satisfying a predicate
Count(S) == Cardinality(S)

RECURSIVE Gcd(_, _)
Gcd(a, b) == IF b = 0 THEN a ELSE Gcd(b, a % b)

\* the greatest common divisor of s[lo..hi] (0 if all are 0)
RECURSIVE GcdRange(_, _, _)
GcdRange(s, lo, hi) ==
    IF lo > hi THEN 0
    ELSE IF lo = hi THEN s[lo]
    ELSE Gcd(GcdRange(s, lo, (lo + hi) \div 2),
             GcdRange(s, (lo + hi) \div 2 + 1, hi))

GcdSeq(s) == GcdRange(s, 1, Len(s))

\* q * q >= 10000 * v, without forming either product (q = 100 * a + b)
SquareAtLeast(q, v) ==
    LET a == q \div 100
        b == q % 100
    IN v - a * a <= (200 * a * b + b * b) \div 10000

(***************************************************************************)
(* chrono::LocalResult of Local.from_local_datetime: the local midnight of *)
(* a date does not exist (a DST gap at midnight), exists once, or exists   *)
(* twice (a DST fold at midnight).  Which one holds is the environment's   *)
(* (the time zone's) choice.                                               *)
(***************************************************************************)
LocalResult == {"None", "Single", "Ambiguous"}

\* chrono::Duration::minutes(m), in seconds
Minutes(m) == m * SecondsPerMinute

\* Duration::num_minutes(): whole minutes of a duration d, rounded toward zero
num_minutes(d) == IF d >= 0 THEN d \div SecondsPerMinute ELSE -((-d) \div SecondsPerMinute)

\* current.timestamp.date_naive().and_hms_opt(0, 0, 0): midnight of the date
TodayStart(timestamp) ==
    (timestamp \div Minutes(MinutesPerDay)) * Minutes(MinutesPerDay)

(***************************************************************************)
(* update_metrics, step by step.                                           *)
(***************************************************************************)
HealthSnapshot(now, temperature, power_draw, memory_used, gpu_utilization, gpu_clock, memory_clock, is_throttling) ==
    [ timestamp       |-> now,
      temperature     |-> temperature,
      power_draw      |-> unwrap_or(power_draw, 0),
      memory_used     |-> memory_used,
      gpu_utilization |-> gpu_utilization,
      clock_speeds    |-> <<unwrap_or(gpu_clock, 0), unwrap_or(memory_clock, 0)>>,
      is_throttling   |-> is_throttling ]

\* an eviction loop that pops the newest sample instead of the oldest
RECURSIVE EvictWindow_back(_)
EvictWindow_back(w) ==
    IF Len(w) > WindowCapacity THEN EvictWindow_back(SubSeq(w, 1, Len(w) - 1)) ELSE w

\* while self.history_window.len() > 3600 { self.history_window.pop_front(); }
RECURSIVE EvictWindow(_)
EvictWindow(w) == IF Len(w) > WindowCapacity THEN EvictWindow(Tail(w)) ELSE w

\* a push without the eviction loop
PushSnapshot_noEvict(w, snapshot) == Append(w, snapshot)

\* push_back(snapshot), then the eviction loop
PushSnapshot(w, snapshot) == EvictWindow(Append(w, snapshot))

\* an eviction loop that pops the newest alert instead of the oldest
RECURSIVE EvictAlerts_back(_)
EvictAlerts_back(h) ==
    IF Len(h) > AlertCapacity THEN EvictAlerts_back(SubSeq(h, 1, Len(h) - 1)) ELSE h

\* while self.alert_history.len() > 100 { self.alert_history.pop_front(); }
RECURSIVE EvictAlerts(_)
EvictAlerts(h) == IF Len(h) > AlertCapacity THEN EvictAlerts(Tail(h)) ELSE h

\* for alert in &alerts { push_back(alert.clone()) }, then the eviction loop
RecordAlerts(h, alerts) == EvictAlerts(h \o alerts)

\* while q.len() > capacity { q.pop_front(); }
RECURSIVE EvictTo(_, _)
EvictTo(q, capacity) == IF Len(q) > capacity THEN EvictTo(Tail(q), capacity) ELSE q

\* temperature metrics whose peak is taken over the whole window
calculate_temperature_metrics_peakWindow(window, current) ==
    LET temp == current.temperature
        five_min_ago == current.timestamp - Minutes(TrendWindowMinutes)
        within == {i \in 1..Len(window) : window[i].timestamp >= five_min_ago}
        first == CHOOSE i \in within : \A j \in within : i <= j
        trend_5min == IF within = {} THEN 0 ELSE temp - window[first].temperature
        time_above_80c ==
            Count({i \in 1..Len(window) : window[i].temperature > 80})
        peak == CHOOSE t \in {temp} \cup {window[i].temperature : i \in 1..Len(window)} :
                    t >= temp /\ \A i \in 1..Len(window) : t >= window[i].temperature
    IN [ current        |-> temp,
         max_safe       |-> MaxSafe,
         critical       |-> Critical,
         trend_5min     |-> trend_5min,
         time_above_80c |-> time_above_80c,
         peak_today     |-> peak ]

\* temperature metrics whose trend is taken against the oldest sample of the
\* window, whatever its timestamp
calculate_temperature_metrics_oldest(window, current) ==
    LET temp == current.temperature
        time_above_80c ==
            Count({i \in 1..Len(window) : window[i].temperature > 80})
        today_start == TodayStart(current.timestamp)
        today == {i \in 1..Len(window) : window[i].timestamp >= today_start}
        peak == CHOOSE t \in {temp} \cup {window[i].temperature : i \in today} :
                    t >= temp /\ \A i \in today : t >= window[i].temperature
    IN [ current        |-> temp,
         max_safe       |-> MaxSafe,
         critical       |-> Critical,
         trend_5min     |-> temp - window[1].temperature,
         time_above_80c |-> time_above_80c,
         peak_today     |-> peak ]

calculate_temperature_metrics(window, current) ==
    LET temp == current.temperature
        five_min_ago == current.timestamp - Minutes(TrendWindowMinutes)
        within == {i \in 1..Len(window) : window[i].timestamp >= five_min_ago}
        first == CHOOSE i \in within : \A j \in within : i <= j
        trend_5min == IF within = {} THEN 0 ELSE temp - window[first].temperature
        time_above_80c ==
            Count({i \in 1..Len(window) : window[i].temperature > 80})
        today_start == TodayStart(current.timestamp)
        today == {i \in 1..Len(window) : window[i].timestamp >= today_start}
        peak == CHOOSE t \in {temp} \cup {window[i].temperature : i \in today} :
                    t >= temp /\ \A i \in today : t >= window[i].temperature
    IN [ current        |-> temp,
         max_safe       |-> MaxSafe,
         critical       |-> Critical,
         trend_5min     |-> trend_5min,
         time_above_80c |-> time_above_80c,
         peak_today     |-> peak ]

\* power metrics whose spike count runs over every adjacent pair of the window
calculate_power_metrics_allPairs(window, current) ==
    LET power == current.power_draw
        utilization == current.gpu_utilization
        efficiency == IF power > 0 THEN (utilization * 100) \div power ELSE 0
        power_spikes ==
            Count({i \in 2..Len(window) :
                      window[i].power_draw - window[i - 1].power_draw > SpikeWatts})
        avg_draw_1hr ==
            IF window = <<>> THEN power
            ELSE SumSeq([i \in 1..Len(window) |-> window[i].power_draw])
                     \div Len(window)
    IN [ current_draw |-> power,
         efficiency   |-> efficiency,
         power_spikes |-> power_spikes,
         avg_draw_1hr |-> avg_draw_1hr ]

calculate_power_metrics(window, current) ==
    LET power == current.power_draw
        utilization == current.gpu_utilization
        efficiency == IF power > 0 THEN (utilization * 100) \div power ELSE 0
        curr == Take(Rev(window), SpikePairs)
        prev == Take(Skip(Rev(window), 1), SpikePairs)
        power_spikes ==
            Count({i \in 1..Min(Len(curr), Len(prev)) :
                      curr[i].power_draw - prev[i].power_draw > SpikeWatts})
        avg_draw_1hr ==
            IF window = <<>> THEN power
            ELSE SumSeq([i \in 1..Len(window) |-> window[i].power_draw])
                     \div Len(window)
    IN [ current_draw |-> power,
         efficiency   |-> efficiency,
         power_spikes |-> power_spikes,
         avg_draw_1hr |-> avg_draw_1hr ]

\* (variance.sqrt() / mean).min(1.0) over the samples xs; 0.0 / 0.0 is NaN and
\* f32::min returns its other argument, 1.0, for a NaN.
\* The ratio does not change when every sample is divided by a common
\* factor g; with V = n*Q - S*S the ratio is sqrt(V) / S, and its hundredths
\* rounded up are the least r with (r * S)^2 >= 10000 * V.
Fragmentation(xs) ==
    LET n == Len(xs)
        g == GcdSeq(xs)
        ys == [i \in 1..n |-> xs[i] \div g]
        S == SumSeq(ys)
        Q == SumSeq([i \in 1..n |-> ys[i] * ys[i]])
        V == n * Q - S * S
    IN IF g = 0 THEN 100
       ELSE IF V >= S * S THEN 100
       ELSE CHOOSE r \in 0..100 :
                /\ SquareAtLeast(r * S, V)
                /\ \A k \in 0..(r - 1) : ~SquareAtLeast(k * S, V)

\* a usage trend measured against the sample before the current one
calculate_memory_metrics_perTick(window, current, total_memory) ==
    LET current_usage == current.memory_used
        usage_trend ==
            IF Len(window) < 2 THEN 0
            ELSE current_usage - window[Len(window) - 1].memory_used
        leak_suspicion ==
            IF usage_trend > LeakTrendMin THEN Min(usage_trend * 2, 100) ELSE 0
    IN [ usage_trend         |-> usage_trend,
         fragmentation_score |-> 0,
         leak_suspicion      |-> leak_suspicion,
         peak_usage_today    |-> current_usage ]

calculate_memory_metrics(window, current, total_memory) ==
    LET current_usage == current.memory_used
        one_min_ago == current.timestamp - Minutes(UsageWindowMinutes)
        within == {i \in 1..Len(window) : window[i].timestamp >= one_min_ago}
        first == CHOOSE i \in within : \A j \in within : i <= j
        usage_trend ==
            IF within = {} THEN 0 ELSE current_usage - window[first].memory_used
        recent == Take(Rev(window), FragmentationSamples)
        recent_usage == [i \in 1..Len(recent) |-> recent[i].memory_used]
        usage_variance ==
            IF Len(window) > FragmentationMinLen THEN Fragmentation(recent_usage)
            ELSE 0
        leak_suspicion ==
            IF usage_trend > LeakTrendMin THEN Min(usage_trend * 2, 100) ELSE 0
        today_start == TodayStart(current.timestamp)
        today == {i \in 1..Len(window) : window[i].timestamp >= today_start}
        peak_usage_today ==
            IF today = {} THEN current_usage
            ELSE CHOOSE m \in {window[i].memory_used : i \in today} :
                     \A i \in today : m >= window[i].memory_used
    IN [ usage_trend         |-> usage_trend,
         fragmentation_score |-> usage_variance,
         leak_suspicion      |-> leak_suspicion,
         peak_usage_today    |-> peak_usage_today ]

\* penalties whose time-above-80 rule is not strict (>= instead of >)
Penalties_timeAboveInclusive(temp, power, memory, is_throttling) ==
      (IF temp.current > 90 THEN 30
       ELSE IF temp.current > 85 THEN 20
       ELSE IF temp.current > 80 THEN 10 ELSE 0)
    + (IF temp.trend_5min > 10 THEN 15 ELSE 0)
    + (IF temp.time_above_80c >= TimeAbove80Limit THEN 10 ELSE 0)
    + (IF is_throttling THEN 25 ELSE 0)
    + (IF memory.leak_suspicion > 70 THEN 20
       ELSE IF memory.leak_suspicion > 30 THEN 10 ELSE 0)
    + (IF memory.fragmentation_score > 70 THEN 15 ELSE 0)
    + (IF power.efficiency < 50 THEN 10 ELSE 0)
    + (IF power.power_spikes > 5 THEN 5 ELSE 0)

\* penalties whose temperature and leak tiers start at their thresholds
Penalties_inclusiveTiers(temp, power, memory, is_throttling) ==
      (IF temp.current >= 90 THEN 30
       ELSE IF temp.current >= 85 THEN 20
       ELSE IF temp.current >= 80 THEN 10 ELSE 0)
    + (IF temp.trend_5min > 10 THEN 15 ELSE 0)
    + (IF temp.time_above_80c > TimeAbove80Limit THEN 10 ELSE 0)
    + (IF is_throttling THEN 25 ELSE 0)
    + (IF memory.leak_suspicion >= 70 THEN 20
       ELSE IF memory.leak_suspicion >= 30 THEN 10 ELSE 0)
    + (IF memory.fragmentation_score > 70 THEN 15 ELSE 0)
    + (IF power.efficiency < 50 THEN 10 ELSE 0)
    + (IF power.power_spikes > 5 THEN 5 ELSE 0)

\* the sum of the penalties subtracted from 100.0
Penalties(temp, power, memory, is_throttling) ==
      (IF temp.current > 90 THEN 30
       ELSE IF temp.current > 85 THEN 20
       ELSE IF temp.current > 80 THEN 10 ELSE 0)
    + (IF temp.trend_5min > 10 THEN 15 ELSE 0)
    + (IF temp.time_above_80c > TimeAbove80Limit THEN 10 ELSE 0)
    + (IF is_throttling THEN 25 ELSE 0)
    + (IF memory.leak_suspicion > 70 THEN 20
       ELSE IF memory.leak_suspicion > 30 THEN 10 ELSE 0)
    + (IF memory.fragmentation_score > 70 THEN 15 ELSE 0)
    + (IF power.efficiency < 50 THEN 10 ELSE 0)
    + (IF power.power_spikes > 5 THEN 5 ELSE 0)

\* the score without its final clamp
calculate_overall_health_score_unclamped(temp, power, memory, is_throttling) ==
    100 - Penalties(temp, power, memory, is_throttling)

\* let mut score = 100.0; the penalties; score.max(0.0).min(100.0)
calculate_overall_health_score(temp, power, memory, is_throttling) ==
    Min(Max(100 - Penalties(temp, power, memory, is_throttling), 0), 100)

\* a status that does not look at Critical alerts
determine_health_status_noCritical(score, alerts) ==
    LET has_warning == \E i \in 1..Len(alerts) : alerts[i].severity = "Warning"
    IN IF score < 30 THEN "Critical"
       ELSE IF has_warning \/ score < 60 THEN "Warning"
       ELSE IF score < 85 THEN "Good"
       ELSE "Excellent"

\* a status that does not look at Warning alerts
determine_health_status_noWarning(score, alerts) ==
    LET has_critical == \E i \in 1..Len(alerts) : alerts[i].severity = "Critical"
    IN IF has_critical \/ score < 30 THEN "Critical"
       ELSE IF score < 60 THEN "Warning"
       ELSE IF score < 85 THEN "Good"
       ELSE "Excellent"

determine_health_status(score, alerts) ==
    LET has_critical == \E i \in 1..Len(alerts) : alerts[i].severity = "Critical"
        has_warning == \E i \in 1..Len(alerts) : alerts[i].severity = "Warning"
    IN IF has_critical \/ score < 30 THEN "Critical"
       ELSE IF has_warning \/ score < 60 THEN "Warning"
       ELSE IF score < 85 THEN "Good"
       ELSE "Excellent"

HealthAlert(alert_type, message, severity, now, value, threshold) ==
    [ alert_type |-> alert_type,
      message    |-> message,
      severity   |-> severity,
      timestamp  |-> now,
      value      |-> Some(value),
      threshold  |-> Some(threshold) ]

\* temperature rules whose critical rule is strict (> instead of >=)
check_temperature_alerts_strict(temp, now) ==
      (IF temp.current > temp.critical
       THEN <<HealthAlert("TemperatureCritical", "exceeds safe limits", "Critical",
                          now, temp.current, temp.critical)>>
       ELSE IF temp.current >= temp.max_safe
       THEN <<HealthAlert("TemperatureHigh", "is high", "Warning",
                          now, temp.current, temp.max_safe)>>
       ELSE <<>>)
    \o (IF temp.trend_5min > 15
        THEN <<HealthAlert("TemperatureHigh", "rising rapidly", "Warning",
                           now, temp.trend_5min, 10)>>
        ELSE <<>>)

\* temperature rules whose level rules are two separate ifs (no else)
check_temperature_alerts_noElse(temp, now) ==
      (IF temp.current >= temp.critical
       THEN <<HealthAlert("TemperatureCritical", "exceeds safe limits", "Critical",
                          now, temp.current, temp.critical)>>
       ELSE <<>>)
    \o (IF temp.current >= temp.max_safe
        THEN <<HealthAlert("TemperatureHigh", "is high", "Warning",
                           now, temp.current, temp.max_safe)>>
        ELSE <<>>)
    \o (IF temp.trend_5min > 15
        THEN <<HealthAlert("TemperatureHigh", "rising rapidly", "Warning",
                           now, temp.trend_5min, 10)>>
        ELSE <<>>)

\* the alerts check_temperature_alerts pushes, in push order
check_temperature_alerts(temp, now) ==
      (IF temp.current >= temp.critical
       THEN <<HealthAlert("TemperatureCritical", "exceeds safe limits", "Critical",
                          now, temp.current, temp.critical)>>
       ELSE IF temp.current >= temp.max_safe
       THEN <<HealthAlert("TemperatureHigh", "is high", "Warning",
                          now, temp.current, temp.max_safe)>>
       ELSE <<>>)
    \o (IF temp.trend_5min > 15
        THEN <<HealthAlert("TemperatureHigh", "rising rapidly", "Warning",
                           now, temp.trend_5min, 10)>>
        ELSE <<>>)

check_power_alerts(power, now) ==
    IF power.power_spikes > 10
    THEN <<HealthAlert("PowerSpike", "power spikes", "Warning",
                       now, power.power_spikes, 5)>>
    ELSE <<>>

\* a memory rule that fires where the leak penalty of the score starts
check_memory_alerts_penaltyTier(memory, now) ==
    IF memory.leak_suspicion > 70
    THEN <<HealthAlert("MemoryLeakSuspected", "possible memory leak", "Warning",
                       now, memory.leak_suspicion, 50)>>
    ELSE <<>>

check_memory_alerts(memory, now) ==
    IF memory.leak_suspicion > 80
    THEN <<HealthAlert("MemoryLeakSuspected", "possible memory leak", "Warning",
                       now, memory.leak_suspicion, 50)>>
    ELSE <<>>

\* a throttling rule that raises its alert as Critical
throttling_alert_critical(is_throttling, temperature, now) ==
    IF is_throttling
    THEN <<HealthAlert("ThermalThrottling", "performance reduced", "Critical",
                       now, temperature, 83)>>
    ELSE <<>>

\* a throttling rule that pushes its alert twice
throttling_alert_twice(is_throttling, temperature, now) ==
    IF is_throttling
    THEN <<HealthAlert("ThermalThrottling", "performance reduced", "Warning",
                       now, temperature, 83),
           HealthAlert("ThermalThrottling", "performance reduced", "Warning",
                       now, temperature, 83)>>
    ELSE <<>>

\* if is_throttling { alerts.push(ThermalThrottling ..) }
throttling_alert(is_throttling, temperature, now) ==
    IF is_throttling
    THEN <<HealthAlert("ThermalThrottling", "performance reduced", "Warning",
                       now, temperature, 83)>>
    ELSE <<>>

\* the first `limit` alerts, oldest first (no rev())
get_recent_alerts_oldestFirst(history, limit) == Take(history, limit)

\* self.alert_history.iter().rev().take(limit).cloned().collect()
get_recent_alerts(history, limit) == Take(Rev(history), limit)

HealthReport(overall_score, status, temperature_metrics, power_metrics, memory_metrics, is_throttling, uptime, alerts) ==
    [ overall_score               |-> overall_score,
      status                      |-> status,
      temperature                 |-> temperature_metrics,
      power                       |-> power_metrics,
      memory                      |-> memory_metrics,
      thermal_throttling_detected |-> is_throttling,
      uptime_hours                |-> uptime,
      alerts                      |-> alerts ]

(***************************************************************************)
(* The state after HealthMonitor::new() and App::new().                    *)
(***************************************************************************)
InitMonitor ==
    /\ history_window = <<>>
    /\ alert_history = <<>>
    /\ monitoring_start = StartTime
    /\ health_metrics = None
    /\ recent_alerts = None
    /\ panicked = FALSE
    /\ appended = <<>>
    /\ generated = <<>>
    /\ pc = "draw"
    /\ update_pc = "idle"
    /\ gpus = None
    /\ frame = None
    /\ processes = <<>>
    /\ selected_process = None
    /\ selected_pid = None

Init ==
    /\ InitMonitor
    /\ score_input = None
    /\ score_output = None

\* the throttling rule evaluated before the three rule functions
GenerateAlerts_throttlingFirst(temperature_metrics, power_metrics, memory_metrics, is_throttling, temperature, now) ==
       throttling_alert(is_throttling, temperature, now)
    \o check_temperature_alerts(temperature_metrics, now)
    \o check_power_alerts(power_metrics, now)
    \o check_memory_alerts(memory_metrics, now)

\* let mut alerts = Vec::new(); the three rule functions; the throttling rule
\* rules that stay silent when the report before this one already carried an
\* alert (edge-triggered instead of level-triggered)
GenerateAlerts_edgeTriggered(temperature_metrics, power_metrics, memory_metrics, is_throttling, temperature, now) ==
    IF health_metrics # None /\ health_metrics[1].alerts # <<>>
    THEN <<>>
    ELSE    check_temperature_alerts(temperature_metrics, now)
         \o check_power_alerts(power_metrics, now)
         \o check_memory_alerts(memory_metrics, now)
         \o throttling_alert(is_throttling, temperature, now)

GenerateAlerts(temperature_metrics, power_metrics, memory_metrics, is_throttling, temperature, now) ==
       check_temperature_alerts(temperature_metrics, now)
    \o check_power_alerts(power_metrics, now)
    \o check_memory_alerts(memory_metrics, now)
    \o throttling_alert(is_throttling, temperature, now)

\* a report that carries the whole alert history before its own alerts
Report_withHistory(window, snapshot, memory_total, start) ==
    LET now == snapshot.timestamp
        is_throttling == snapshot.is_throttling
        temperature_metrics == calculate_temperature_metrics(window, snapshot)
        power_metrics == calculate_power_metrics(window, snapshot)
        memory_metrics == calculate_memory_metrics(window, snapshot, memory_total)
        alerts == GenerateAlerts(temperature_metrics, power_metrics, memory_metrics,
                                 is_throttling, snapshot.temperature, now)
        overall_score == calculate_overall_health_score(
                             temperature_metrics, power_metrics, memory_metrics,
                             is_throttling)
        status == determine_health_status(overall_score, alerts)
        uptime == num_minutes(now - start)
    IN HealthReport(overall_score, status, temperature_metrics, power_metrics,
                    memory_metrics, is_throttling, uptime, alert_history \o alerts)

\* what update_metrics computes from the window after the push: the report
Report(window, snapshot, memory_total, start) ==
    LET now == snapshot.timestamp
        is_throttling == snapshot.is_throttling
        temperature_metrics == calculate_temperature_metrics(window, snapshot)
        power_metrics == calculate_power_metrics(window, snapshot)
        memory_metrics == calculate_memory_metrics(window, snapshot, memory_total)
        alerts == GenerateAlerts(temperature_metrics, power_metrics, memory_metrics,
                                 is_throttling, snapshot.temperature, now)
        overall_score == calculate_overall_health_score(
                             temperature_metrics, power_metrics, memory_metrics,
                             is_throttling)
        status == determine_health_status(overall_score, alerts)
        uptime == num_minutes(now - start)
    IN HealthReport(overall_score, status, temperature_metrics, power_metrics,
                    memory_metrics, is_throttling, uptime, alerts)

(***************************************************************************)
(* The state changes of one update_metrics call: the window after the      *)
(* push, then either the panic of an unwrap() or the alert history after   *)
(* the append and the report stored by App::update.                        *)
(***************************************************************************)
Commit(snapshot, window, report, recorded, local_midnight) ==
    /\ ~panicked
    /\ history_window' = window
    /\ appended' = Append(appended, snapshot)
    /\ recent_alerts' = None
    /\ UNCHANGED <<monitoring_start, score_input, score_output>>
    /\ \/ /\ local_midnight # "Single"
          /\ panicked' = TRUE
          /\ UNCHANGED <<alert_history, generated, health_metrics>>
       \/ /\ local_midnight = "Single"
          /\ alert_history' = recorded
          /\ generated' = generated \o report.alerts
          /\ health_metrics' = Some(report)
          /\ UNCHANGED panicked

(***************************************************************************)
(* One call of update_metrics as App::update makes it, the returned report *)
(* stored in App.health_metrics.  `now` is the wall-clock reading of the   *)
(* call (every Local::now() of one call reads the same second) and         *)
(* `local_midnight` is what Local.from_local_datetime answers for the      *)
(* midnight of now's date: unwrap() panics unless it is Single, after the  *)
(* snapshot has been pushed.                                               *)
(***************************************************************************)
UpdateMetrics(temperature, power_draw, memory_used, memory_total, gpu_utilization, gpu_clock, memory_clock, is_throttling, now, local_midnight) ==
    LET snapshot == HealthSnapshot(now, temperature, power_draw, memory_used,
                                   gpu_utilization, gpu_clock, memory_clock,
                                   is_throttling)
        window == PushSnapshot(history_window, snapshot)
        report == Report(window, snapshot, memory_total, monitoring_start)
    IN Commit(snapshot, window, report,
              RecordAlerts(alert_history, report.alerts), local_midnight)

(***************************************************************************)
(* The same call with the capacities of the source, 3600 samples and 100   *)
(* alerts, for scenarios that last longer than the scaled window.          *)
(***************************************************************************)
UpdateMetricsUnscaled(temperature, power_draw, memory_used, memory_total, gpu_utilization, gpu_clock, memory_clock, is_throttling, now, local_midnight) ==
    LET snapshot == HealthSnapshot(now, temperature, power_draw, memory_used,
                                   gpu_utilization, gpu_clock, memory_clock,
                                   is_throttling)
        window == EvictTo(Append(history_window, snapshot), HistoryWindowLen)
        report == Report(window, snapshot, memory_total, monitoring_start)
    IN Commit(snapshot, window, report,
              EvictTo(alert_history \o report.alerts, AlertHistoryLen),
              local_midnight)

\* a call that drains what it returns from the history
GetRecentAlerts_drain(limit) ==
    /\ ~panicked
    /\ recent_alerts' = Some([limit |-> limit,
                              alerts |-> get_recent_alerts(alert_history, limit)])
    /\ alert_history' = SubSeq(alert_history, 1,
                               Len(alert_history) - Min(limit, Len(alert_history)))
    /\ UNCHANGED <<history_window, monitoring_start, health_metrics, panicked,
                   appended, generated, score_input, score_output>>
    /\ UNCHANGED app_vars

(***************************************************************************)
(* One call of get_recent_alerts(limit) (&self: the monitor is only read). *)
(***************************************************************************)
GetRecentAlerts(limit) ==
    /\ ~panicked
    /\ recent_alerts' = Some([limit |-> limit,
                              alerts |-> get_recent_alerts(alert_history, limit)])
    /\ UNCHANGED <<history_window, alert_history, monitoring_start,
                   health_metrics, panicked, appended, generated,
                   score_input, score_output>>
    /\ UNCHANGED app_vars

(***************************************************************************)
(* Spec: the monitor under call sequences longer than the window.  Two     *)
(* temperatures tell the samples apart.                                    *)
(***************************************************************************)
Temperatures == {70, 95}

Update ==
    /\ Len(appended) < MaxCalls
    /\ UNCHANGED app_vars
    /\ \E temperature \in Temperatures, local_midnight \in LocalResult :
           UpdateMetrics(temperature, None, 0, 8192, 0, None, None, FALSE,
                         StartTime, local_midnight)

Next == Update

Spec == Init /\ [][Next]_vars

(***************************************************************************)
(* SpecAlerts: update_metrics calls, one a second, that generate up to     *)
(* four alerts each, interleaved with get_recent_alerts calls.             *)
(***************************************************************************)
AlertMemoryUsed == {0, 45}

AlertUpdate ==
    /\ Len(appended) < MaxAlertCalls
    /\ UNCHANGED app_vars
    /\ \E temperature \in Temperatures, memory_used \in AlertMemoryUsed,
          is_throttling \in BOOLEAN, local_midnight \in LocalResult :
           UpdateMetrics(temperature, None, memory_used, 8192, 0, None, None,
                         is_throttling, StartTime + Len(appended), local_midnight)

Get == \E limit \in 0..MaxLimit : GetRecentAlerts(limit)

NextAlerts == AlertUpdate \/ Get

SpecAlerts == Init /\ [][NextAlerts]_vars

(***************************************************************************)
(* SpecStatus: short call sequences over inputs that reach every row of    *)
(* the status decision table and every temperature tier.                   *)
(***************************************************************************)
StatusTemperatures == {60, 72, 88, 90, 95}
StatusPowerDraws == {None, Some(100)}
StatusMemoryUsed == {0, 40}

StatusUpdate ==
    /\ Len(appended) < MaxStatusCalls
    /\ UNCHANGED app_vars
    /\ \E temperature \in StatusTemperatures, power_draw \in StatusPowerDraws,
          memory_used \in StatusMemoryUsed, is_throttling \in BOOLEAN,
          local_midnight \in LocalResult :
           UpdateMetrics(temperature, power_draw, memory_used, 8192, 90,
                         Some(1500), Some(7000), is_throttling,
                         StartTime, local_midnight)

NextStatus == StatusUpdate

SpecStatus == Init /\ [][NextStatus]_vars

(***************************************************************************)
(* SpecLeak: the monitor with the capacities of the source, called once a  *)
(* second with memory_used growing by LeakStep MiB from call to call and   *)
(* every other input nominal.                                              *)
(***************************************************************************)
LeakUpdate ==
    /\ Len(appended) < LeakTicks
    /\ UNCHANGED app_vars
    /\ \E local_midnight \in LocalResult :
           UpdateMetricsUnscaled(65, Some(150), LeakStep * (Len(appended) + 1),
                                 8192, 90, Some(1500), Some(7000), FALSE,
                                 StartTime + Len(appended), local_midnight)

NextLeak == LeakUpdate

SpecLeak == Init /\ [][NextLeak]_vars

(***************************************************************************)
(* SpecPower: calls whose power draw either stays or rises by PowerJump    *)
(* watts, one call a second.                                               *)
(***************************************************************************)
PowerUpdate ==
    /\ Len(appended) < MaxPowerCalls
    /\ UNCHANGED app_vars
    /\ \E rise \in {0, PowerJump}, local_midnight \in LocalResult :
           LET last == IF appended = <<>> THEN 100
                       ELSE appended[Len(appended)].power_draw
           IN UpdateMetrics(65, Some(last + rise), 0, 8192, 90,
                            Some(1500), Some(7000), FALSE,
                            StartTime + Len(appended), local_midnight)

NextPower == PowerUpdate

SpecPower == Init /\ [][NextPower]_vars

(***************************************************************************)
(* SpecApp: the loop of run_app (main.rs): draw, then select! between the  *)
(* interval tick, whose handler awaits App::update to its end, and a 50 ms *)
(* sleep, whose handler polls and handles one key.  App::update has two    *)
(* await points, get_gpu_info and get_gpu_processes, before the            *)
(* synchronous block that calls update_metrics; `?` leaves the loop.       *)
(***************************************************************************)
AppGpus ==
    {None} \cup {Some([temperature |-> t, throttled |-> b]) :
                     t \in Temperatures, b \in BOOLEAN}

\* terminal.draw(|f| ui::draw(f, app)): reads app.health_metrics and
\* app.health_monitor.get_recent_alerts(10)
Draw ==
    /\ ~panicked
    /\ pc = "draw"
    /\ frame' = Some([ report |-> health_metrics,
                       recent |-> get_recent_alerts(alert_history, DrawAlertLimit),
                       newest |-> IF history_window = <<>> THEN None
                                  ELSE Some(history_window[Len(history_window)]),
                       update |-> update_pc ])
    /\ pc' \in {"select", "done"}
    /\ UNCHANGED <<history_window, alert_history, monitoring_start, health_metrics,
                   recent_alerts, panicked, appended, generated, score_input,
                   score_output, update_pc, gpus>>
    /\ UNCHANGED select_vars

\* a tick branch that starts App::update as a task of its own and goes on
TickWins_spawn ==
    /\ ~panicked
    /\ pc = "select"
    /\ update_pc = "idle"
    /\ Len(appended) < MaxAppCycles
    /\ pc' = "draw"
    /\ update_pc' = "gpus"
    /\ UNCHANGED <<history_window, alert_history, monitoring_start, health_metrics,
                   recent_alerts, panicked, appended, generated, score_input,
                   score_output, gpus, frame>>
    /\ UNCHANGED select_vars

\* _ = update_interval.tick() => { app.update().await?; }: the call starts
TickWins ==
    /\ ~panicked
    /\ pc = "select"
    /\ update_pc = "idle"
    /\ Len(appended) < MaxAppCycles
    /\ pc' = "update"
    /\ update_pc' = "gpus"
    /\ UNCHANGED <<history_window, alert_history, monitoring_start, health_metrics,
                   recent_alerts, panicked, appended, generated, score_input,
                   score_output, gpus, frame>>
    /\ UNCHANGED select_vars

\* _ = tokio::time::sleep(50 ms) => { .. }: the tick future is dropped
SleepWins ==
    /\ ~panicked
    /\ pc = "select"
    /\ pc' = "key"
    /\ UNCHANGED <<history_window, alert_history, monitoring_start, health_metrics,
                   recent_alerts, panicked, appended, generated, score_input,
                   score_output, update_pc, gpus, frame>>
    /\ UNCHANGED select_vars

\* what the sleep branch of run_app reads: no key press, 'q' / Ctrl-C / a
\* read error, which return, or a key handed to app.handle_key with no modal
\* view open
Events == {"None", "Quit", "Up", "Down", "PageUp", "PageDown", "Home", "End",
           "F", "Delete"}

\* the GpuProcess values get_gpu_processes can list, and the lists it returns
GpuProcesses == {[pid |-> 1, gpu_usage |-> 10], [pid |-> 2, gpu_usage |-> 20]}

ProcessLists ==
    ({<<>>} \cup {<<p>> : p \in GpuProcesses}
            \cup {<<p, q>> : p \in GpuProcesses, q \in GpuProcesses})
        \ {<<p, p>> : p \in GpuProcesses}

\* sort_by is stable: p goes behind the processes that do not compare after it
\* under the reversed gpu_usage order (sort_column GpuUsage, sort_ascending
\* false, as App::new sets them)
InsertProcess(sorted, p) ==
    LET ahead == {i \in 1..Len(sorted) : sorted[i].gpu_usage >= p.gpu_usage}
        k == IF ahead = {} THEN 0
             ELSE CHOOSE i \in ahead : \A j \in ahead : j <= i
    IN SubSeq(sorted, 1, k) \o <<p>> \o SubSeq(sorted, k + 1, Len(sorted))

RECURSIVE sort_processes(_)
sort_processes(ps) ==
    IF ps = <<>> THEN <<>>
    ELSE InsertProcess(sort_processes(SubSeq(ps, 1, Len(ps) - 1)), ps[Len(ps)])

select_previous(ps, selected) ==
    IF ps = <<>> THEN selected
    ELSE IF selected # None /\ selected[1] > 0 THEN Some(selected[1] - 1)
    ELSE Some(Len(ps) - 1)

select_next(ps, selected) ==
    IF ps = <<>> THEN selected
    ELSE IF selected # None /\ selected[1] < Len(ps) - 1 THEN Some(selected[1] + 1)
    ELSE Some(0)

\* for _ in 0..n { self.select_previous(); } and the same with select_next
RECURSIVE select_previous_times(_, _, _)
select_previous_times(ps, selected, n) ==
    IF n = 0 THEN selected
    ELSE select_previous_times(ps, select_previous(ps, selected), n - 1)

RECURSIVE select_next_times(_, _, _)
select_next_times(ps, selected, n) ==
    IF n = 0 THEN selected
    ELSE select_next_times(ps, select_next(ps, selected), n - 1)

page_up(ps, selected) == select_previous_times(ps, selected, 10)

page_down(ps, selected) == select_next_times(ps, selected, 10)

select_first(ps, selected) == IF ps # <<>> THEN Some(0) ELSE selected

select_last(ps, selected) == IF ps # <<>> THEN Some(Len(ps) - 1) ELSE selected

\* self.processes.get(i).map(|p| p.pid) at a selection
PidAt(ps, selected) ==
    IF selected = None \/ selected[1] >= Len(ps) THEN None
    ELSE Some(ps[selected[1] + 1].pid)

\* the navigation arms of handle_key
Navigate(key, ps, selected) ==
    CASE key = "Up"       -> select_previous(ps, selected)
      [] key = "Down"     -> select_next(ps, selected)
      [] key = "PageUp"   -> page_up(ps, selected)
      [] key = "PageDown" -> page_down(ps, selected)
      [] key = "Home"     -> select_first(ps, selected)
      [] key = "End"      -> select_last(ps, selected)

\* switch_gpu(gpu_idx): below gpus.len() the GPU shown changes and the
\* selection is dropped; otherwise nothing happens
switch_gpu ==
    \/ /\ \E g \in AppGpus \ {None} : gpus' = g
       /\ selected_process' = None
       /\ selected_pid' = None
       /\ UNCHANGED processes
    \/ UNCHANGED <<gpus, processes, selected_process, selected_pid>>

\* kill_selected_process: with a selection inside the list, kill_process(pid);
\* if it succeeds the list is fetched again and sorted, and a selection at or
\* past the end of a list that is not empty moves to its last entry.  A failed
\* kill or fetch changes nothing.
kill_selected_process ==
    /\ UNCHANGED gpus
    /\ \/ UNCHANGED <<processes, selected_process, selected_pid>>
       \/ /\ PidAt(processes, selected_process) # None
          /\ \E listed \in ProcessLists :
                 LET sorted == sort_processes(listed)
                     adjust == /\ unwrap_or(selected_process, 0) >= Len(sorted)
                               /\ sorted # <<>>
                 IN /\ processes' = sorted
                    /\ selected_process' =
                           IF adjust THEN Some(Len(sorted) - 1) ELSE selected_process
                    /\ selected_pid' =
                           IF adjust THEN Some(sorted[Len(sorted)].pid)
                           ELSE selected_pid

\* the sleep branch of run_app: poll, read, and app.handle_key(key).await?,
\* which leaves the monitor and the stored report alone
HandleKey ==
    /\ ~panicked
    /\ pc = "key"
    /\ \E key \in Events :
           /\ pc' = IF key = "Quit" THEN "done" ELSE "draw"
           /\ CASE key \in {"None", "Quit"} ->
                       UNCHANGED <<gpus, processes, selected_process, selected_pid>>
                [] key = "F" -> switch_gpu
                [] key = "Delete" -> kill_selected_process
                [] OTHER ->
                       /\ selected_process' = Navigate(key, processes, selected_process)
                       /\ selected_pid' =
                              IF processes = <<>> THEN selected_pid
                              ELSE PidAt(processes,
                                         Navigate(key, processes, selected_process))
                       /\ UNCHANGED <<gpus, processes>>
    /\ UNCHANGED <<history_window, alert_history, monitoring_start, health_metrics,
                   recent_alerts, panicked, appended, generated, score_input,
                   score_output, update_pc, frame>>

\* where run_app stands once App::update has returned result
AfterUpdate(result) ==
    IF pc # "update" THEN pc ELSE IF result = "Ok" THEN "draw" ELSE "done"

\* self.gpus = self.gpu_manager.get_gpu_info().await?;
FetchGpus ==
    /\ ~panicked
    /\ update_pc = "gpus"
    /\ \/ /\ \E g \in AppGpus : gpus' = g
          /\ update_pc' = "processes"
          /\ UNCHANGED pc
       \/ /\ update_pc' = "idle"
          /\ pc' = AfterUpdate("Err")
          /\ UNCHANGED gpus
    /\ UNCHANGED <<history_window, alert_history, monitoring_start, health_metrics,
                   recent_alerts, panicked, appended, generated, score_input,
                   score_output, frame>>
    /\ UNCHANGED select_vars

\* self.processes = self.process_manager.get_gpu_processes().await?;
\* self.sort_processes();
FetchProcesses ==
    /\ ~panicked
    /\ update_pc = "processes"
    /\ \/ /\ \E listed \in ProcessLists : processes' = sort_processes(listed)
          /\ update_pc' = "health"
          /\ UNCHANGED pc
       \/ /\ update_pc' = "idle"
          /\ pc' = AfterUpdate("Err")
          /\ UNCHANGED processes
    /\ UNCHANGED <<selected_process, selected_pid>>
    /\ UNCHANGED <<history_window, alert_history, monitoring_start, health_metrics,
                   recent_alerts, panicked, appended, generated, score_input,
                   score_output, gpus, frame>>

\* if let Some(gpu) = self.gpus.get(self.current_gpu) { .. update_metrics .. };
\* Ok(())
UpdateHealth ==
    /\ ~panicked
    /\ update_pc = "health"
    /\ update_pc' = "idle"
    /\ pc' = AfterUpdate("Ok")
    /\ UNCHANGED <<gpus, frame>>
    /\ UNCHANGED select_vars
    /\ IF gpus = None
       THEN UNCHANGED <<history_window, alert_history, monitoring_start,
                        health_metrics, recent_alerts, panicked, appended,
                        generated, score_input, score_output>>
       ELSE \E local_midnight \in LocalResult :
                UpdateMetrics(gpus[1].temperature, None, 0, 8192, 0, None, None,
                              gpus[1].throttled, StartTime + Len(appended),
                              local_midnight)

NextApp ==
    \/ Draw
    \/ TickWins
    \/ SleepWins
    \/ HandleKey
    \/ FetchGpus
    \/ FetchProcesses
    \/ UpdateHealth

SpecApp == Init /\ [][NextApp]_vars

(***************************************************************************)
(* SpecClock: calls whose timestamps are readings of the local wall clock  *)
(* (Local::now()), which the system may set forward or back between two    *)
(* calls: each call reads StartTime plus any of the offsets, among them    *)
(* the next midnight and a reading more than five minutes later.           *)
(***************************************************************************)
ClockOffsets == {0, 10, 310}
ClockMemoryUsed == {0, 40}

ClockUpdate ==
    /\ Len(appended) < MaxClockCalls
    /\ UNCHANGED app_vars
    /\ \E temperature \in Temperatures, memory_used \in ClockMemoryUsed,
          offset \in ClockOffsets, local_midnight \in LocalResult :
           UpdateMetrics(temperature, None, memory_used, 8192, 0, None, None,
                         FALSE, StartTime + offset, local_midnight)

NextClock == ClockUpdate

SpecClock == Init /\ [][NextClock]_vars

(***************************************************************************)
(* SpecScore: calculate_overall_health_score as a function of its          *)
(* arguments, drawn around every threshold it compares against.            *)
(***************************************************************************)
ScoreInputs ==
    [ temp : [ current : {80, 85, 86, 90, 91}, max_safe : {MaxSafe},
               critical : {Critical}, trend_5min : {10, 11},
               time_above_80c : {TimeAbove80Limit, TimeAbove80Limit + 1},
               peak_today : {91} ],
      power : [ current_draw : {100}, efficiency : {49, 50},
                power_spikes : {5, 6}, avg_draw_1hr : {100} ],
      memory : [ usage_trend : {0}, fragmentation_score : {70, 71},
                 leak_suspicion : {30, 31, 70, 71}, peak_usage_today : {0} ],
      is_throttling : BOOLEAN ]

InitScore ==
    /\ InitMonitor
    /\ score_input \in {Some(x) : x \in ScoreInputs}
    /\ score_output = None

ScoreCall ==
    /\ score_input # None
    /\ score_output = None
    /\ score_output' = Some(calculate_overall_health_score(
                                score_input[1].temp, score_input[1].power,
                                score_input[1].memory, score_input[1].is_throttling))
    /\ UNCHANGED <<history_window, alert_history, monitoring_start, health_metrics,
                   recent_alerts, panicked, appended, generated, score_input>>
    /\ UNCHANGED app_vars

NextScore == ScoreCall

SpecScore == InitScore /\ [][NextScore]_vars

(***************************************************************************)
(* SpecRules: check_temperature_alerts as a function of the temperature    *)
(* metrics, drawn on both sides of every constant it compares against.     *)
(***************************************************************************)
RuleInputs ==
    [ current : 78..92, max_safe : {MaxSafe}, critical : {Critical},
      trend_5min : {-20, 0, 14, 15, 16, 30}, time_above_80c : {0},
      peak_today : {92} ]

InitRules ==
    /\ InitMonitor
    /\ score_input \in {Some(x) : x \in RuleInputs}
    /\ score_output = None

RulesCall ==
    /\ score_input # None
    /\ score_output = None
    /\ score_output' = Some(check_temperature_alerts(score_input[1], StartTime))
    /\ UNCHANGED <<history_window, alert_history, monitoring_start, health_metrics,
                   recent_alerts, panicked, appended, generated, score_input>>
    /\ UNCHANGED app_vars

NextRules == RulesCall

SpecRules == InitRules /\ [][NextRules]_vars

(***************************************************************************)
(* SpecHot: the monitor with the capacities of the source, after a run of  *)
(* calls one second apart, `hot` calls at 85 degrees followed by `cool`    *)
(* calls at 70 degrees, and one more call.  The start of a behaviour is    *)
(* the state that run leaves: its samples in the window, the "is high"     *)
(* alert of each hot call generated and the last 100 of them in the        *)
(* history, the report of the last call stored.                            *)
(***************************************************************************)
HotCounts == {0, 1, 1799, 1800, 1801}
CoolCounts == {0, 1, 2, 1799, 1800, 1801}

\* the i-th sample of the run
HotSample(i, hot) ==
    HealthSnapshot(StartTime + i - 1, IF i <= hot THEN 85 ELSE 70, Some(150),
                   1024, 90, Some(1500), Some(7000), FALSE)

\* the alerts the run generates: check_temperature_alerts on a call at 85
HotAlerts(hot) ==
    [i \in 1..hot |->
        HealthAlert("TemperatureHigh", "is high", "Warning",
                    StartTime + i - 1, 85, MaxSafe)]

InitHot ==
    \E hot \in HotCounts, cool \in CoolCounts :
        LET run == [i \in 1..(hot + cool) |-> HotSample(i, hot)]
        IN /\ hot + cool <= HistoryWindowLen
           /\ history_window = run
           /\ appended = run
           /\ generated = HotAlerts(hot)
           /\ alert_history =
                  Skip(HotAlerts(hot), Max(hot - AlertHistoryLen, 0))
           /\ monitoring_start = StartTime
           /\ health_metrics =
                  IF run = <<>> THEN None
                  ELSE Some(Report(run, run[Len(run)], 8192, StartTime))
           /\ recent_alerts = None
           /\ panicked = FALSE
           /\ score_input = Some([hot |-> hot, cool |-> cool])
           /\ score_output = None
           /\ pc = "draw"
           /\ update_pc = "idle"
           /\ gpus = None
           /\ frame = None
           /\ processes = <<>>
           /\ selected_process = None
           /\ selected_pid = None

HotUpdate ==
    /\ Len(appended) = score_input[1].hot + score_input[1].cool
    /\ UNCHANGED app_vars
    /\ \E temperature \in {70, 85}, local_midnight \in LocalResult :
           UpdateMetricsUnscaled(temperature, Some(150), 1024, 8192, 90,
                                 Some(1500), Some(7000), FALSE,
                                 StartTime + Len(appended), local_midnight)

NextHot == HotUpdate

SpecHot == InitHot /\ [][NextHot]_vars

(***************************************************************************)
(* SpecMemory: calls a second apart whose memory readings rise and fall by *)
(* amounts on both sides of the 10 MB trend and of the 0.8 suspicion.      *)
(***************************************************************************)
MemoryReadings == {0, 10, 11, 40, 41, 60}

MemoryUpdate ==
    /\ Len(appended) < MaxMemoryCalls
    /\ UNCHANGED app_vars
    /\ \E temperature \in Temperatures, memory_used \in MemoryReadings,
          local_midnight \in LocalResult :
           UpdateMetrics(temperature, Some(150), memory_used, 8192, 90,
                         Some(1500), Some(7000), FALSE,
                         StartTime + Len(appended), local_midnight)

NextMemory == MemoryUpdate

SpecMemory == Init /\ [][NextMemory]_vars

(***************************************************************************)
(* SpecLevel: the monitor with the capacities of the source, called once a *)
(* second: LevelFree calls that are either cool or critical and throttled, *)
(* then calls at 85 degrees, each of which meets the "is high" rule again. *)
(***************************************************************************)
LevelReadings == {<<70, FALSE>>, <<95, TRUE>>}

LevelUpdate ==
    /\ Len(appended) < MaxLevelCalls
    /\ UNCHANGED app_vars
    /\ \E reading \in (IF Len(appended) < LevelFree THEN LevelReadings
                       ELSE {<<85, FALSE>>}),
          local_midnight \in LocalResult :
           UpdateMetricsUnscaled(reading[1], Some(150), 1024, 8192, 90,
                                 Some(1500), Some(7000), reading[2],
                                 StartTime + Len(appended), local_midnight)

NextLevel == LevelUpdate

SpecLevel == Init /\ [][NextLevel]_vars

(***************************************************************************)
(* Properties.                                                             *)
(***************************************************************************)
HasSeverity(alerts, severity) ==
    \E i \in 1..Len(alerts) : alerts[i].severity = severity

\* C1: after every update_metrics call, whatever the calls before it, the
\* sample window holds at most its capacity of samples.
C1_WindowBounded == Len(history_window) <= WindowCapacity

\* more calls than the capacity have been made and the window is full
C1_Witness ==
    /\ Len(appended) > WindowCapacity
    /\ Len(history_window) = WindowCapacity

\* C2: the window is FIFO: after n calls it holds the newest min(n, capacity)
\* samples in the order they were appended; with capacity+k calls the oldest
\* k samples are absent.
C2_WindowFifo ==
    LET n == Len(appended)
        kept == Len(history_window)
    IN /\ kept = Min(n, WindowCapacity)
       /\ \A i \in 1..kept : history_window[i] = appended[n - kept + i]

\* two samples have been evicted, and the window differs from the first
\* capacity-many samples appended
C2_Witness ==
    /\ Len(appended) = WindowCapacity + 2
    /\ history_window # SubSeq(appended, 1, WindowCapacity)
    /\ history_window # SubSeq(appended, 2, WindowCapacity + 1)

\* C3: the alert history holds at most its capacity of alerts, and it is the
\* newest (at most capacity-many) alerts ever generated, in generation order:
\* overflow removes from the oldest end only.
C3_AlertHistoryFifo ==
    LET n == Len(generated)
        kept == Len(alert_history)
    IN /\ kept <= AlertCapacity
       /\ kept = Min(n, AlertCapacity)
       /\ \A i \in 1..kept : alert_history[i] = generated[n - kept + i]

\* alerts have been evicted, and the history differs from the oldest
\* capacity-many alerts generated
C3_Witness ==
    /\ Len(generated) > AlertCapacity
    /\ alert_history # SubSeq(generated, 1, AlertCapacity)

\* C4: the score calculate_overall_health_score returns lies in [0, 100] for
\* every combination of triggered penalties, also when they sum to more than
\* 100.
C4_ScoreInRange ==
    score_output # None => score_output[1] >= 0 /\ score_output[1] <= 100

\* a score has been computed from penalties that sum to more than 100
C4_Witness ==
    /\ score_output # None
    /\ Penalties(score_input[1].temp, score_input[1].power,
                 score_input[1].memory, score_input[1].is_throttling) > 100

\* C5: a report whose alerts contain a Critical alert has status Critical,
\* whatever its score.
C5_CriticalAlertCriticalStatus ==
    health_metrics # None =>
        (HasSeverity(health_metrics[1].alerts, "Critical")
            => health_metrics[1].status = "Critical")

\* a report with a Critical alert whose score alone would give Good
C5_Witness ==
    /\ health_metrics # None
    /\ HasSeverity(health_metrics[1].alerts, "Critical")
    /\ health_metrics[1].overall_score >= 60

\* C6: the status of a report follows the decision table over its score and
\* its alerts: Critical iff a Critical alert or score < 30; else Warning iff a
\* Warning alert or score < 60; else Good iff score < 85; else Excellent.
C6_StatusTable ==
    health_metrics # None =>
        LET r == health_metrics[1]
            crit == HasSeverity(r.alerts, "Critical") \/ r.overall_score < 30
            warn == HasSeverity(r.alerts, "Warning") \/ r.overall_score < 60
        IN /\ r.status \in {"Critical", "Warning", "Good", "Excellent"}
           /\ r.status = "Critical" <=> crit
           /\ r.status = "Warning" <=> ~crit /\ warn
           /\ r.status = "Good" <=> ~crit /\ ~warn /\ r.overall_score < 85
           /\ r.status = "Excellent" <=> ~crit /\ ~warn /\ r.overall_score >= 85

\* a report with one alert, of severity Warning, and a score of at least 60
C6_Witness ==
    /\ health_metrics # None
    /\ Len(health_metrics[1].alerts) = 1
    /\ health_metrics[1].alerts[1].severity = "Warning"
    /\ health_metrics[1].overall_score >= 60
    /\ health_metrics[1].status = "Warning"

\* C7: get_recent_alerts is a pure read: a call leaves the sample window, the
\* alert history and monitoring_start unchanged, and a second call with the
\* same limit and no update_metrics in between returns the same sequence.
C7_PureRead ==
    [][ recent_alerts' # None =>
          /\ history_window' = history_window
          /\ alert_history' = alert_history
          /\ monitoring_start' = monitoring_start
          /\ (recent_alerts # None /\ recent_alerts[1].limit = recent_alerts'[1].limit
                => recent_alerts'[1].alerts = recent_alerts[1].alerts) ]_vars

\* a call has returned two alerts or more
C7_Witness ==
    /\ recent_alerts # None
    /\ Len(recent_alerts[1].alerts) >= 2

\* C8: get_recent_alerts(limit) returns min(limit, |H|) alerts: the last
\* min(limit, |H|) entries of the alert history H, newest first.
C8_NewestFirst ==
    recent_alerts # None =>
        LET out == recent_alerts[1].alerts
            h == Len(alert_history)
        IN /\ Len(out) = Min(recent_alerts[1].limit, h)
           /\ \A i \in 1..Len(out) : out[i] = alert_history[h + 1 - i]

\* a call whose limit cut the history short returned two different alerts
C8_Witness ==
    /\ recent_alerts # None
    /\ recent_alerts[1].limit >= 2
    /\ recent_alerts[1].limit < Len(alert_history)
    /\ recent_alerts[1].alerts[1] # recent_alerts[1].alerts[2]

\* C9: no call fails: update_metrics returns a report for every input, also
\* for a sample whose date has no unique local midnight, and
\* get_recent_alerts on a fresh monitor returns the empty sequence.
C9_NoFailure ==
    /\ ~panicked
    /\ (recent_alerts # None /\ appended = <<>> => recent_alerts[1].alerts = <<>>)

HasCriticalTemperatureAlert(alerts) ==
    \E i \in 1..Len(alerts) :
        /\ alerts[i].alert_type = "TemperatureCritical"
        /\ alerts[i].severity = "Critical"

\* C10 as stated: in every cycle with current temperature >= 90 the report
\* has a Critical TemperatureCritical alert, status Critical and score <= 70.
C10_Original ==
    health_metrics # None =>
        LET r == health_metrics[1]
        IN r.temperature.current >= 90 =>
              /\ HasCriticalTemperatureAlert(r.alerts)
              /\ r.status = "Critical"
              /\ r.overall_score <= 70

\* C10 amended: in every cycle with current temperature >= 90 the report has
\* a Critical TemperatureCritical alert and status Critical; the temperature
\* penalty is 30 (score <= 70) when the temperature is above 90, and 20
\* (score <= 80) at exactly 90.
C10_Amended ==
    health_metrics # None =>
        LET r == health_metrics[1]
        IN r.temperature.current >= 90 =>
              /\ HasCriticalTemperatureAlert(r.alerts)
              /\ r.status = "Critical"
              /\ r.overall_score <= 80
              /\ (r.temperature.current > 90 => r.overall_score <= 70)

\* a cycle at exactly 90 degrees whose only penalty is the temperature's
C10_Witness ==
    /\ health_metrics # None
    /\ health_metrics[1].temperature.current = 90
    /\ health_metrics[1].overall_score = 80
    /\ health_metrics[1].status = "Critical"

HasAlert(alerts, alert_type) ==
    \E i \in 1..Len(alerts) : alerts[i].alert_type = alert_type

\* C11 (as stated): memory_used growing by 15 MB per update, one update a
\* second for two minutes: the final report has a usage_trend of about 15,
\* leak_suspicion 0.3, no MemoryLeakSuspected alert and no leak penalty.
C11_Original ==
    (Len(appended) = LeakTicks /\ ~panicked) =>
        LET report == health_metrics[1]
        IN /\ report.memory.usage_trend \in (LeakStep - 1)..(LeakStep + 1)
           /\ report.memory.leak_suspicion = 30
           /\ ~HasAlert(report.alerts, "MemoryLeakSuspected")
           /\ report.overall_score = 100

\* C11 (amended): in that run every report later than one minute after the
\* first, the final one included, has usage_trend equal to the growth over
\* the last minute (60 updates of 15 MB: 900), leak_suspicion 1.0, exactly one
\* alert, a MemoryLeakSuspected Warning, and the -20 leak penalty (score 80).
C11_Amended ==
    (Len(appended) > Minutes(UsageWindowMinutes) /\ ~panicked) =>
        LET report == health_metrics[1]
        IN /\ report.memory.usage_trend = LeakStep * Minutes(UsageWindowMinutes)
           /\ report.memory.leak_suspicion = 100
           /\ Len(report.alerts) = 1
           /\ report.alerts[1].alert_type = "MemoryLeakSuspected"
           /\ report.alerts[1].severity = "Warning"
           /\ report.overall_score = 80

\* the final report of the two minutes, carrying the leak alert
C11_Witness ==
    /\ Len(appended) = LeakTicks
    /\ ~panicked
    /\ HasAlert(health_metrics[1].alerts, "MemoryLeakSuspected")

\* the jumps of more than 20 W between adjacent samples, over every sample
\* pushed so far
PowerJumps ==
    Cardinality({i \in 2..Len(appended) :
                    appended[i].power_draw - appended[i - 1].power_draw > SpikeWatts})

\* C12: once the power draws contain more than 10 jumps of more than 20 W
\* between adjacent samples, the report has power_spikes > 10, carries a
\* PowerSpike alert of severity Warning and has lost the 5 points of the
\* power-spike penalty.
C12_PowerSpikeAlert ==
    (PowerJumps > 10 /\ ~panicked) =>
        LET report == health_metrics[1]
        IN /\ report.power.power_spikes > 10
           /\ \E i \in 1..Len(report.alerts) :
                  /\ report.alerts[i].alert_type = "PowerSpike"
                  /\ report.alerts[i].severity = "Warning"
           /\ report.overall_score <= 95

\* the values C13 gives for the report of a first call on the sample `first`
FirstCallValues(report, first) ==
    /\ report.temperature.trend_5min = 0
    /\ report.memory.usage_trend = 0
    /\ report.memory.leak_suspicion = 0
    /\ report.memory.fragmentation_score = 0
    /\ report.power.power_spikes = 0
    /\ report.temperature.time_above_80c = (IF first.temperature > 80 THEN 1 ELSE 0)
    /\ report.power.avg_draw_1hr = first.power_draw
    /\ report.temperature.peak_today = first.temperature
    /\ report.memory.peak_usage_today = first.memory_used

\* C13: the first update_metrics call of a fresh monitor returns a report,
\* for every input, and in it the trends, leak suspicion, fragmentation and
\* spike count are 0, time_above_80c is 1 above 80 degrees and 0 otherwise,
\* avg_draw_1hr is the current power draw (0 if absent) and the two peaks are
\* the current temperature and the current memory used.
C13_FirstCall ==
    Len(appended) = 1 =>
        /\ ~panicked
        /\ health_metrics # None
        /\ FirstCallValues(health_metrics[1], appended[1])

\* the last n elements of s
LastN(s, n) == SubSeq(s, Len(s) - Min(n, Len(s)) + 1, Len(s))

\* C14: a completed update_metrics call returns in report.alerts exactly the
\* alerts its rules generate from the metrics of that report, each stamped
\* with the time of the call, and none from earlier calls; it leaves the alert
\* history equal to the history before the call followed by those alerts in
\* the same order, cut from the front to the last AlertCapacity entries.
C14_AlertsOfThisCall ==
    [][ (Len(appended') = Len(appended) + 1 /\ ~panicked') =>
            LET report == health_metrics'[1]
                sample == appended'[Len(appended')]
            IN /\ report.alerts =
                      GenerateAlerts(report.temperature, report.power, report.memory,
                                     sample.is_throttling, sample.temperature,
                                     sample.timestamp)
               /\ generated' = generated \o report.alerts
               /\ alert_history' =
                      LastN(alert_history \o report.alerts, AlertCapacity) ]_vars

\* a call that found alerts of an earlier call in the history, generated two
\* or more of its own, and left the history cut to its capacity, the oldest
\* alert kept being of an earlier call
C14_Witness ==
    /\ ~panicked
    /\ health_metrics # None
    /\ Len(health_metrics[1].alerts) >= 2
    /\ Len(generated) > AlertCapacity
    /\ Len(alert_history) = AlertCapacity
    /\ alert_history[1].timestamp < health_metrics[1].alerts[1].timestamp
    /\ recent_alerts = None

\* the place of an alert in the rule order of C15
RuleRank(alert) ==
    IF alert.alert_type \in {"TemperatureCritical", "TemperatureHigh"}
    THEN (IF alert.message = "rising rapidly" THEN 2 ELSE 1)
    ELSE IF alert.alert_type = "PowerSpike" THEN 3
    ELSE IF alert.alert_type = "MemoryLeakSuspected" THEN 4
    ELSE 5

\* C15: within the alerts of one report, the temperature alerts come first,
\* the level alert (critical / is high) before the rising-rapidly alert, then
\* any PowerSpike alert, then any MemoryLeakSuspected alert, then any
\* ThermalThrottling alert.
C15_RuleOrder ==
    (~panicked /\ health_metrics # None) =>
        LET alerts == health_metrics[1].alerts
        IN \A i, j \in 1..Len(alerts) :
               i < j => RuleRank(alerts[i]) <= RuleRank(alerts[j])

\* a report with a level alert, a rising-rapidly alert, a leak alert and a
\* throttling alert
C15_Witness ==
    /\ ~panicked
    /\ health_metrics # None
    /\ LET alerts == health_metrics[1].alerts
       IN /\ Len(alerts) = 4
          /\ alerts[1].alert_type = "TemperatureCritical"
          /\ alerts[2].message = "rising rapidly"
          /\ alerts[3].alert_type = "MemoryLeakSuspected"
          /\ alerts[4].alert_type = "ThermalThrottling"

\* C16: in every report the divisions of the analyzers are guarded: the
\* efficiency is 0 when the current power draw is 0 or absent, avg_draw_1hr is
\* taken over a window that is not empty, and fragmentation_score is 0 when
\* the mean of memory_used over the recent samples is 0.
C16_GuardedDivisions ==
    (~panicked /\ health_metrics # None) =>
        LET report == health_metrics[1]
            recent == Take(Rev(history_window), FragmentationSamples)
        IN /\ report.power.current_draw = 0 => report.power.efficiency = 0
           /\ Len(history_window) > 0
           /\ (\A i \in 1..Len(recent) : recent[i].memory_used = 0) =>
                  report.memory.fragmentation_score = 0

\* the constant the rule of an alert compares its metric against, as C17
\* lists them (leak suspicion in hundredths); None for the throttling rule,
\* which compares no number
ComparedThreshold(alert) ==
    IF alert.alert_type = "TemperatureCritical" THEN Some(Critical)
    ELSE IF alert.alert_type = "TemperatureHigh"
    THEN (IF alert.message = "rising rapidly" THEN Some(15) ELSE Some(MaxSafe))
    ELSE IF alert.alert_type = "PowerSpike" THEN Some(10)
    ELSE IF alert.alert_type = "MemoryLeakSuspected" THEN Some(80)
    ELSE None

\* C17: every alert of a report carries a value and a threshold, the threshold
\* being the constant its rule compared the value against (90, 80, 15, 10,
\* 0.8), and the value is at least the threshold.
C17_ThresholdCompared ==
    (~panicked /\ health_metrics # None) =>
        LET alerts == health_metrics[1].alerts
        IN \A i \in 1..Len(alerts) :
               /\ alerts[i].value # None
               /\ alerts[i].threshold # None
               /\ ComparedThreshold(alerts[i]) # None =>
                      alerts[i].threshold = ComparedThreshold(alerts[i])
               /\ alerts[i].value[1] >= alerts[i].threshold[1]

\* every alert of the sequence is a Warning or a Critical, and the Criticals
\* are TemperatureCritical alerts
SeveritiesOf(alerts) ==
    \A i \in 1..Len(alerts) :
        /\ alerts[i].severity \in {"Warning", "Critical"}
        /\ alerts[i].severity = "Critical" =>
               alerts[i].alert_type = "TemperatureCritical"

\* C18: after any sequence of update_metrics calls, every alert of the
\* stored report, of the alert history and of those ever generated has
\* severity Warning or Critical, never Excellent or Good, and only
\* TemperatureCritical alerts are Critical.
C18_AlertSeverities ==
    /\ SeveritiesOf(alert_history)
    /\ SeveritiesOf(generated)
    /\ health_metrics # None => SeveritiesOf(health_metrics[1].alerts)

\* a Critical alert has been generated and the history holds Warning alerts
\* of three kinds
C18_Witness ==
    /\ HasSeverity(generated, "Critical")
    /\ HasSeverity(alert_history, "Warning")
    /\ HasAlert(alert_history, "ThermalThrottling")
    /\ HasAlert(alert_history, "MemoryLeakSuspected")
    /\ HasAlert(alert_history, "TemperatureHigh")

\* C19: while a call of App::update is in progress the loop of run_app stands
\* inside it: it is neither drawing nor handling a key, nor starting a second
\* call.  So every frame was drawn with no call in progress, and what it read
\* is the report of the newest sample of the monitor together with the newest
\* alerts of the history, those of that report first; or no report, no
\* sample and no alert before the first cycle.
C19_DrawBetweenCycles ==
    /\ update_pc # "idle" => pc = "update"
    /\ frame # None =>
          LET f == frame[1]
          IN /\ f.update = "idle"
             /\ f.report = None => (f.newest = None /\ f.recent = <<>>)
             /\ f.report # None =>
                   LET report == f.report[1]
                       shown == Min(Len(report.alerts), Min(AlertCapacity, DrawAlertLimit))
                   IN /\ f.newest # None
                      /\ report.temperature.current = f.newest[1].temperature
                      /\ report.thermal_throttling_detected = f.newest[1].is_throttling
                      /\ \A i \in 1..Len(report.alerts) :
                             report.alerts[i].timestamp = f.newest[1].timestamp
                      /\ Take(f.recent, shown) = Take(Rev(report.alerts), shown)

\* a frame drawn after the second cycle, showing its report and its alerts,
\* while the next call of App::update is in progress
C19_Witness ==
    /\ frame # None
    /\ frame[1].report # None
    /\ Len(frame[1].report[1].alerts) >= 2
    /\ Len(appended) = 2
    /\ frame[1].newest = Some(appended[2])
    /\ update_pc = "processes"

\* C20: after any sequence of update_metrics calls, whatever the wall clock
\* read at each of them, the samples of the window are in non-decreasing
\* timestamp order from the oldest to the newest.
C20_TimestampOrder ==
    \A i, j \in 1..Len(history_window) :
        i < j => history_window[i].timestamp <= history_window[j].timestamp

\* the alerts of the sequence with the given type and message
AlertsLike(alerts, alert_type, message) ==
    {i \in 1..Len(alerts) :
        alerts[i].alert_type = alert_type /\ alerts[i].message = message}

\* C21: the alerts of check_temperature_alerts hold the TemperatureCritical
\* alert iff current >= 90, the TemperatureHigh "is high" alert iff
\* 80 <= current < 90, never both, and the rising-rapidly TemperatureHigh
\* alert iff trend_5min > 15, whatever the level alert; each at most once, so
\* at most two temperature alerts.
C21_LevelAlertsExclusive ==
    score_output # None =>
        LET temp == score_input[1]
            alerts == score_output[1]
            critical == AlertsLike(alerts, "TemperatureCritical", "exceeds safe limits")
            high == AlertsLike(alerts, "TemperatureHigh", "is high")
            rising == AlertsLike(alerts, "TemperatureHigh", "rising rapidly")
        IN /\ ~(critical # {} /\ high # {})
           /\ critical # {} <=> temp.current >= 90
           /\ high # {} <=> (temp.current >= 80 /\ temp.current < 90)
           /\ rising # {} <=> temp.trend_5min > 15
           /\ Cardinality(critical) <= 1
           /\ Cardinality(high) <= 1
           /\ Cardinality(rising) <= 1
           /\ Len(alerts) = Cardinality(critical \cup high \cup rising)
           /\ Len(alerts) <= 2

\* at exactly 90 degrees with a trend of 16: the critical alert and the
\* rising-rapidly alert, and no "is high" alert
C21_Witness ==
    /\ score_output # None
    /\ score_input[1].current = 90
    /\ score_input[1].trend_5min = 16
    /\ Len(score_output[1]) = 2
    /\ score_output[1][1].alert_type = "TemperatureCritical"
    /\ score_output[1][2].message = "rising rapidly"

\* C22: a report holds exactly one ThermalThrottling alert when the
\* is_throttling input of its call is true and none when it is false; when it
\* is true, the status is Warning or Critical, thermal_throttling_detected is
\* true and the score is at most 75.
C22_ThrottlingAlertOnce ==
    (~panicked /\ health_metrics # None) =>
        LET report == health_metrics[1]
            input == appended[Len(appended)].is_throttling
            throttling == {i \in 1..Len(report.alerts) :
                              report.alerts[i].alert_type = "ThermalThrottling"}
        IN /\ Cardinality(throttling) = (IF input THEN 1 ELSE 0)
           /\ report.thermal_throttling_detected = input
           /\ input => /\ report.status \in {"Warning", "Critical"}
                       /\ report.overall_score <= 75

\* a throttling cycle with no other penalty: score 75, status Warning, the
\* throttling alert the only alert
C22_Witness ==
    /\ ~panicked
    /\ health_metrics # None
    /\ appended[Len(appended)].is_throttling
    /\ health_metrics[1].overall_score = 75
    /\ health_metrics[1].status = "Warning"
    /\ Len(health_metrics[1].alerts) = 1

\* the positions i of the window whose pair (sample i, sample i - 1) is among
\* the most recent 10 pairs and rises by more than 20 W
RecentJumps ==
    LET n == Len(history_window)
    IN {i \in 2..n : /\ i > n - 10
                     /\ history_window[i].power_draw
                            - history_window[i - 1].power_draw > 20}

\* C23: in every report power_spikes is the number of pairs (sample, immediate
\* predecessor), among the most recent min(10, n - 1) pairs of the n-sample
\* window, whose power draw rises by more than 20 W; older pairs are not
\* counted, and 0 <= power_spikes <= 10.
C23_PowerSpikesCount ==
    (~panicked /\ health_metrics # None) =>
        LET spikes == health_metrics[1].power.power_spikes
        IN /\ spikes = Cardinality(RecentJumps)
           /\ spikes >= 0
           /\ spikes <= 10

\* a window of 12 samples or more whose oldest pair is a jump that is not
\* counted, with 3 jumps among the last 10 pairs: power_spikes = 3
C23_Witness ==
    /\ ~panicked
    /\ Len(history_window) >= 12
    /\ history_window[2].power_draw - history_window[1].power_draw > 20
    /\ Cardinality(RecentJumps) = 3
    /\ health_metrics[1].power.power_spikes = 3

\* the positions of the window samples timestamped at or after the time of
\* the newest sample minus 5 minutes (300 seconds)
WithinFiveMinutes ==
    LET n == Len(history_window)
    IN {i \in 1..n :
           history_window[i].timestamp >= history_window[n].timestamp - 300}

\* C24: in every report trend_5min is the current temperature minus the
\* temperature of the first sample, from the oldest end of the window, whose
\* timestamp is >= the current timestamp minus 5 minutes; such a sample always
\* exists, the current one being in the window, and trend_5min is 0 when the
\* current sample is the only one.
C24_TrendFiveMinutes ==
    (~panicked /\ health_metrics # None) =>
        LET n == Len(history_window)
            report == health_metrics[1]
        IN /\ n \in WithinFiveMinutes
           /\ \E first \in WithinFiveMinutes :
                 /\ \A i \in WithinFiveMinutes : first <= i
                 /\ report.temperature.trend_5min =
                        report.temperature.current - history_window[first].temperature
           /\ WithinFiveMinutes = {n} => report.temperature.trend_5min = 0

\* increasing timestamps, the oldest sample more than 5 minutes old and hotter
\* than the second: the trend is taken against the second sample
C24_Witness ==
    /\ ~panicked
    /\ Len(history_window) = 3
    /\ history_window[1].timestamp < history_window[2].timestamp
    /\ history_window[2].timestamp < history_window[3].timestamp
    /\ WithinFiveMinutes = {2, 3}
    /\ history_window[1].temperature = 95
    /\ health_metrics[1].temperature.trend_5min = 25

\* the positions of the window samples timestamped at or after the local
\* midnight (a multiple of 86400 seconds) of the newest sample's date
SinceMidnight ==
    LET n == Len(history_window)
        midnight == (history_window[n].timestamp \div 86400) * 86400
    IN {i \in 1..n : history_window[i].timestamp >= midnight}

\* C25: in every report peak_today >= the current temperature and
\* peak_usage_today >= the current memory used; peak_today is the maximum
\* temperature over the window samples timestamped at or after the local
\* midnight of the current sample's date, samples from before that midnight
\* being excluded (and peak_usage_today the maximum memory used over the same
\* samples).
C25_PeaksSinceMidnight ==
    (~panicked /\ health_metrics # None) =>
        LET report == health_metrics[1]
            current == history_window[Len(history_window)]
        IN /\ report.temperature.peak_today >= report.temperature.current
           /\ report.memory.peak_usage_today >= current.memory_used
           /\ \E i \in SinceMidnight :
                 report.temperature.peak_today = history_window[i].temperature
           /\ \A i \in SinceMidnight :
                 report.temperature.peak_today >= history_window[i].temperature
           /\ \E i \in SinceMidnight :
                 report.memory.peak_usage_today = history_window[i].memory_used
           /\ \A i \in SinceMidnight :
                 report.memory.peak_usage_today >= history_window[i].memory_used

\* the first cycle after midnight, cooler and with less memory used than the
\* last cycle before it: both peaks are lower than the samples of the day
\* before still in the window
C25_Witness ==
    /\ ~panicked
    /\ Len(history_window) = 2
    /\ history_window[1].timestamp < 86400
    /\ history_window[2].timestamp >= 86400
    /\ SinceMidnight = {2}
    /\ history_window[1].temperature = 95
    /\ history_window[1].memory_used = 40
    /\ health_metrics[1].temperature.peak_today = 70
    /\ health_metrics[1].memory.peak_usage_today = 0

\* the window samples hotter than 80 degrees
Above80 ==
    {i \in 1..Len(history_window) : history_window[i].temperature > 80}

\* C26: in every report time_above_80c is the number of samples of the whole
\* window, after eviction and the current one included, with a temperature
\* above 80, so it lies between 0 and the window length, itself at most 3600;
\* the score loses the 10 points of the time-above-80 penalty exactly when
\* that count exceeds 1800 (the other penalties of these runs are the tier of
\* the current temperature and the 15 points of a trend above 10).
C26_TimeAbove80 ==
    (~panicked /\ health_metrics # None) =>
        LET report == health_metrics[1]
            count == report.temperature.time_above_80c
        IN /\ count = Cardinality(Above80)
           /\ count >= 0
           /\ count <= Len(history_window)
           /\ Len(history_window) <= 3600
           /\ report.overall_score =
                  100 - (IF report.temperature.current > 80 THEN 10 ELSE 0)
                      - (IF report.temperature.trend_5min > 10 THEN 15 ELSE 0)
                      - (IF count > 1800 THEN 10 ELSE 0)

\* the call after a run of 1801 hot and 1799 cool samples, which filled the
\* window and had the penalty applied: the oldest hot sample is evicted, the
\* count is back at 1800 and the penalty is gone
C26_Witness ==
    /\ ~panicked
    /\ score_input[1].hot = 1801
    /\ Len(appended) = 3601
    /\ Len(history_window) = 3600
    /\ health_metrics[1].temperature.current = 70
    /\ health_metrics[1].temperature.time_above_80c = 1800
    /\ health_metrics[1].overall_score = 100

\* C27: in every report leak_suspicion is 0 when usage_trend is at most 10,
\* negative trends included, and min(usage_trend / 50, 1) otherwise, so it is
\* 0 or lies in (0.2, 1]; the report holds a MemoryLeakSuspected alert exactly
\* when leak_suspicion exceeds 0.8, and then its score is at most 80 and its
\* status is Warning or Critical.
C27_LeakSuspicion ==
    (~panicked /\ health_metrics # None) =>
        LET report == health_metrics[1]
            trend == report.memory.usage_trend
            leak == report.memory.leak_suspicion
            alerted == HasAlert(report.alerts, "MemoryLeakSuspected")
        IN /\ trend <= 10 => leak = 0
           /\ trend > 10 => leak = (IF trend >= 50 THEN 100 ELSE 2 * trend)
           /\ leak = 0 \/ (leak > 20 /\ leak <= 100)
           /\ alerted <=> leak > 80
           /\ alerted => /\ report.overall_score <= 80
                         /\ report.status \in {"Warning", "Critical"}

\* a trend of 41 MB, just above the 40 that gives a suspicion of 0.8: the
\* alert is raised, the 20 points are lost and the status is Warning
C27_Witness ==
    /\ ~panicked
    /\ health_metrics # None
    /\ health_metrics[1].memory.usage_trend = 41
    /\ health_metrics[1].memory.leak_suspicion = 82
    /\ HasAlert(health_metrics[1].alerts, "MemoryLeakSuspected")
    /\ health_metrics[1].overall_score = 80
    /\ health_metrics[1].status = "Warning"

\* the penalties of the score as a sum: 10 points for each of the thresholds
\* 80, 85, 90 the temperature exceeds and for each of 0.3, 0.7 the leak
\* suspicion exceeds, and the six independent penalties
TierPenalty(value, thresholds) ==
    10 * Cardinality({t \in thresholds : value > t})

PenaltySum(temp, power, memory, is_throttling) ==
      TierPenalty(temp.current, {80, 85, 90})
    + TierPenalty(memory.leak_suspicion, {30, 70})
    + SumSeq(<< IF temp.trend_5min > 10 THEN 15 ELSE 0,
                IF temp.time_above_80c > 1800 THEN 10 ELSE 0,
                IF is_throttling THEN 25 ELSE 0,
                IF memory.fragmentation_score > 70 THEN 15 ELSE 0,
                IF power.efficiency < 50 THEN 10 ELSE 0,
                IF power.power_spikes > 5 THEN 5 ELSE 0 >>)

Clamp(x, low, high) == IF x < low THEN low ELSE IF x > high THEN high ELSE x

\* C28: the score calculate_overall_health_score returns is clamp(100 - sum
\* of penalties, 0, 100) of its four arguments alone: one temperature tier
\* (above 90: 30, above 85: 20, above 80: 10), one leak tier (above 0.7: 20,
\* above 0.3: 10) and the independent penalties for trend_5min > 10 (15),
\* time_above_80c > 1800 (10), throttling (25), fragmentation > 0.7 (15),
\* efficiency < 0.5 (10) and power_spikes > 5 (5), every comparison strict.
C28_ScoreFunction ==
    score_output # None =>
        LET x == score_input[1]
        IN score_output[1] =
               Clamp(100 - PenaltySum(x.temp, x.power, x.memory, x.is_throttling),
                     0, 100)

\* every argument on its threshold except the temperature at 90 and the leak
\* suspicion at 0.7, which take the lower tiers: 100 - 20 - 10
C28_Witness ==
    /\ score_output # None
    /\ score_input[1].temp.current = 90
    /\ score_input[1].temp.trend_5min = 10
    /\ score_input[1].temp.time_above_80c = 1800
    /\ ~score_input[1].is_throttling
    /\ score_input[1].memory.leak_suspicion = 70
    /\ score_input[1].memory.fragmentation_score = 70
    /\ score_input[1].power.efficiency = 50
    /\ score_input[1].power.power_spikes = 5
    /\ score_output[1] = 70

\* the alerts of one type among alerts
AlertsOfType(alerts, alert_type) ==
    {i \in 1..Len(alerts) : alerts[i].alert_type = alert_type}

\* C29: alerts are level-triggered and not de-duplicated across cycles: the
\* alerts generated so far count one TemperatureCritical per call above 90
\* degrees, one "is high" alert per call in (80, 90], one "rising rapidly"
\* alert per call more than 15 degrees above the first call (all calls lie
\* within five minutes) and one ThermalThrottling per throttled call, however
\* many such calls follow each other, and each is appended to the history;
\* after 100 calls in a row with one alert each the history holds the alerts
\* of exactly those calls, one per call in call order.
C29_LevelTriggered ==
    ~panicked =>
        LET n == Len(appended)
            calls == 1..n
            one_alert(i) == /\ appended[i].temperature > 80
                            /\ appended[i].temperature <= 90
                            /\ ~appended[i].is_throttling
        IN /\ Cardinality(AlertsOfType(generated, "TemperatureCritical")) =
                  Cardinality({i \in calls : appended[i].temperature > 90})
           /\ Cardinality(AlertsLike(generated, "TemperatureHigh", "is high")) =
                  Cardinality({i \in calls : /\ appended[i].temperature > 80
                                             /\ appended[i].temperature <= 90})
           /\ Cardinality(AlertsLike(generated, "TemperatureHigh", "rising rapidly")) =
                  Cardinality({i \in calls :
                      appended[i].temperature - appended[1].temperature > 15})
           /\ Len(generated) =
                    Cardinality(AlertsOfType(generated, "TemperatureCritical"))
                  + Cardinality(AlertsOfType(generated, "TemperatureHigh"))
                  + Cardinality(AlertsOfType(generated, "ThermalThrottling"))
           /\ Cardinality(AlertsOfType(generated, "ThermalThrottling")) =
                  Cardinality({i \in calls : appended[i].is_throttling})
           /\ alert_history = LastN(generated, 100)
           /\ (n >= 100 /\ \A i \in (n - 99)..n : one_alert(i)) =>
                  /\ Len(alert_history) = 100
                  /\ \A k \in 1..100 :
                         /\ alert_history[k].alert_type = "TemperatureHigh"
                         /\ alert_history[k].message = "is high"
                         /\ alert_history[k].timestamp = appended[n - 100 + k].timestamp

\* critical, throttled calls left two alerts each, then 100 calls at 85
\* degrees: the history holds only the alerts of those 100 calls
C29_Witness ==
    /\ ~panicked
    /\ Len(appended) >= LevelFree + 100
    /\ \A i \in 1..LevelFree :
           appended[i].temperature = 95 /\ appended[i].is_throttling
    /\ \A i \in (LevelFree + 1)..Len(appended) : appended[i].temperature = 85
    /\ Len(generated) >= 2 * LevelFree + 100
    /\ Len(alert_history) = 100
    /\ alert_history[1].alert_type = "TemperatureHigh"
    /\ alert_history[1].timestamp = appended[Len(appended) - 99].timestamp

\* C30: in App, after any update cycles and key events, a selection
\* Some(i) has i < processes.len(), and the process at i has the pid it had
\* when the selection was made unless that process has left the list.
C30_SelectionValid ==
    selected_process # None =>
        /\ selected_process[1] < Len(processes)
        /\ (selected_pid # None
              /\ \E i \in 1..Len(processes) : processes[i].pid = selected_pid[1]) =>
                 PidAt(processes, selected_process) = selected_pid

=============================================================================
